---- MODULE Spec2Model ----
(***************************************************************************)
(* gf::TileLayer (src/include/gf/Memory.h, lines 84-320): a grid of        *)
(* (tile, flip) cells rendered as a triangle list, with the geometry cached *)
(* per visible cell rectangle.                                              *)
(*                                                                          *)
(* Conventions of the model                                                 *)
(*  - assert() is compiled in (a debug build): a failed assertion aborts.   *)
(*  - float values are fixed-point integers, FScale units to one pixel.     *)
(*  - unsigned values wrap modulo UIntModulus.  The program's width is 32   *)
(*    bits; TLC's integers stop at 2^31-1, so the model wraps at 2^16: all  *)
(*    operands of the model are below 2^4, and only the wrap of a           *)
(*    subtraction below zero is observable.                                 *)
(*  - undefined behaviour (float NaN converted to unsigned, integer         *)
(*    division by zero, a read through the null texture pointer) is a       *)
(*    nondeterministic choice between the outcomes a build can produce.  A  *)
(*    build converts NaN the same way every time: nanAsUnsigned is chosen   *)
(*    once, in Init.  The other two are chosen at the call they happen in.  *)
(***************************************************************************)
EXTENDS Integers, Sequences, FiniteSets

VARIABLES
  m_layerSize,  \* Vector2u, set by the constructor
  m_blockSize,  \* Vector2u
  m_texture,    \* const Texture*: [bound, size]
  m_tileSize,   \* Vector2u
  m_margin,     \* Vector2u
  m_spacing,    \* Vector2u
  m_tiles,      \* Array2D<Cell>: valid position -> [tile, flip]
  m_rect,       \* RectU: the cached visible rectangle
  m_vertices,   \* VertexArray: the cached geometry
  m_position,   \* Transformable: the layer's translation (fixed point)
  nanAsUnsigned, \* what this build's static_cast<unsigned>(NaN) yields
  status,       \* "running", "aborted" (assertion failure) or "crashed"
  last          \* the last call and what it handed to its collaborators

vars == <<m_layerSize, m_blockSize, m_texture, m_tileSize, m_margin, m_spacing,
          m_tiles, m_rect, m_vertices, m_position, nanAsUnsigned, status, last>>

layerVars == <<m_layerSize, m_blockSize, m_texture, m_tileSize, m_margin,
               m_spacing, m_tiles, m_rect, m_vertices, m_position>>

-----------------------------------------------------------------------------
(* Bounds and constants *)

LayerWidth == 2

\* the constructor's argument: one row of LayerWidth cells
LayerSize == <<LayerWidth, 1>>

NoTile == -1

\* gf::Sqrt2 as a ratio; its denominator is the fixed-point scale
Sqrt2 == <<1414, 1000>>

FScale == Sqrt2[2]

UIntModulus == 2^16

Min(a, b) == IF a < b THEN a ELSE b

Max(a, b) == IF a > b THEN a ELSE b

U(x) == x % UIntModulus

None == {}

\* arguments of setTile in Spec
FlipInputs == { None }

TileInputs == { NoTile, 0, -2 }

\* arguments of setTile in SpecGrid
GridFlipInputs == { None, {"Horizontally"}, {"Vertically", "Diagonally"} }

GridTileInputs == { NoTile, 1, -2 }

\* positions handed to setTile/getTile/getFlip: the grid, and the first position
\* beyond it on each axis
PositionInputs ==
  ((0..(LayerSize[1] - 1)) \X (0..(LayerSize[2] - 1)))
    \cup { <<LayerSize[1], 0>>, <<0, LayerSize[2]>> }

TileSizeInputs == { <<1, 1>>, <<0, 1>> }

BlockSizeInputs == { <<1, 1>>, <<0, 0>> }

MarginInputs == { <<1, 0>>, <<0, 0>> }

SpacingInputs == { <<1, 0>>, <<0, 0>> }

NullTexture == [bound |-> FALSE, size |-> <<0, 0>>]

TextureInputs == { [bound |-> TRUE, size |-> <<3, 1>>] }

\* views of the render target: one over the whole layer, one over its right
\* end, one away from it
ViewWhole == [center |-> <<FScale, FScale \div 2>>, size |-> <<2 * FScale, FScale>>]

ViewRight == [center |-> <<LayerSize[1] * FScale + Sqrt2[1] \div 2, FScale \div 2>>,
              size |-> <<FScale, FScale>>]

ViewAway == [center |-> <<-4 * FScale, -4 * FScale>>, size |-> <<FScale, FScale>>]

ViewInputs == { ViewWhole, ViewRight, ViewAway }

NoView == [center |-> <<0, 0>>, size |-> <<0, 0>>]

\* what a build yields for static_cast<unsigned>(NaN)
NaNToUnsigned == { 0, UIntModulus \div 2 }

\* what a read of the texture's size through a null pointer yields when it does
\* not fault
NullReadSize == <<0, 0>>

\* last: the call, its position or view argument, what a read returned (tile,
\* flip, size), how many times it called RenderTarget::draw and
\* VertexBuffer::load and with which vertices, and whether draw rebuilt the
\* geometry; rect is the rectangle handed to fillVertexArray or computed
NoCall == [op |-> "none", position |-> <<0, 0>>, view |-> NoView,
           tile |-> NoTile, flip |-> None, size |-> <<0, 0>>,
           rect |-> [left |-> 0, top |-> 0, width |-> 0, height |-> 0],
           draws |-> 0, loads |-> 0, geometry |-> <<>>, rebuilt |-> FALSE]

-----------------------------------------------------------------------------
(* Array2D<Cell> *)

isValid(position) ==
  /\ position[1] < m_layerSize[1]
  /\ position[2] < m_layerSize[2]

ValidPositions == (0..(m_layerSize[1] - 1)) \X (0..(m_layerSize[2] - 1))

EmptyCell == [tile |-> NoTile, flip |-> None]

-----------------------------------------------------------------------------
(* Configuration *)

\* getBlockSize that falls back to the tile size when either component is zero
getBlockSizeEitherZero ==
  IF m_blockSize[2] = 0 \/ m_blockSize[1] = 0 THEN m_tileSize ELSE m_blockSize

\* lines 129-135: the value returned
getBlockSize ==
  IF m_blockSize[2] = 0 /\ m_blockSize[1] = 0 THEN m_tileSize ELSE m_blockSize

Called(op) == [NoCall EXCEPT !.op = op]

\* a call of getBlockSize() const
getBlockSizeCall ==
  /\ status = "running"
  /\ last' = [Called("getBlockSize") EXCEPT !.size = getBlockSize]
  /\ UNCHANGED <<layerVars, nanAsUnsigned, status>>

Init ==
  /\ m_layerSize = LayerSize
  /\ m_blockSize = <<0, 0>>
  /\ m_texture = NullTexture
  /\ m_tileSize = <<0, 0>>
  /\ m_margin = <<0, 0>>
  /\ m_spacing = <<0, 0>>
  /\ m_tiles = [p \in (0..(LayerSize[1] - 1)) \X (0..(LayerSize[2] - 1)) |-> EmptyCell]
  /\ m_rect = [left |-> 0, top |-> 0, width |-> 0, height |-> 0]  \* RectU(0, 0, 0, 0)
  /\ m_vertices = <<>>
  /\ m_position = <<0, 0>>
  /\ nanAsUnsigned \in NaNToUnsigned
  /\ status = "running"
  /\ last = Called("TileLayer")

setTexture(texture) ==
  /\ status = "running"
  /\ m_texture' = texture
  /\ last' = Called("configure")
  /\ UNCHANGED <<m_layerSize, m_blockSize, m_tileSize, m_margin, m_spacing,
                 m_tiles, m_rect, m_vertices, m_position, nanAsUnsigned, status>>

unsetTexture ==
  /\ status = "running"
  /\ m_texture' = NullTexture
  /\ last' = Called("configure")
  /\ UNCHANGED <<m_layerSize, m_blockSize, m_tileSize, m_margin, m_spacing,
                 m_tiles, m_rect, m_vertices, m_position, nanAsUnsigned, status>>

setTileSize(tileSize) ==
  /\ status = "running"
  /\ m_tileSize' = tileSize
  /\ last' = Called("configure")
  /\ UNCHANGED <<m_layerSize, m_blockSize, m_texture, m_margin, m_spacing,
                 m_tiles, m_rect, m_vertices, m_position, nanAsUnsigned, status>>

setMargin(margin) ==
  /\ status = "running"
  /\ m_margin' = margin
  /\ last' = Called("configure")
  /\ UNCHANGED <<m_layerSize, m_blockSize, m_texture, m_tileSize, m_spacing,
                 m_tiles, m_rect, m_vertices, m_position, nanAsUnsigned, status>>

setSpacing(spacing) ==
  /\ status = "running"
  /\ m_spacing' = spacing
  /\ last' = Called("configure")
  /\ UNCHANGED <<m_layerSize, m_blockSize, m_texture, m_tileSize, m_margin,
                 m_tiles, m_rect, m_vertices, m_position, nanAsUnsigned, status>>

setBlockSize(blockSize) ==
  /\ status = "running"
  /\ m_blockSize' = blockSize
  /\ last' = Called("configure")
  /\ UNCHANGED <<m_layerSize, m_texture, m_tileSize, m_margin, m_spacing,
                 m_tiles, m_rect, m_vertices, m_position, nanAsUnsigned, status>>

-----------------------------------------------------------------------------
(* Tile grid *)

\* setTile that also drops the cached rectangle
setTileInvalidating(position, tile, flip) ==
  /\ status = "running"
  /\ last' = Called("setTile")
  /\ IF isValid(position)
       THEN /\ m_tiles' = [m_tiles EXCEPT ![position] = [tile |-> tile, flip |-> flip]]
            /\ m_rect' = [left |-> 0, top |-> 0, width |-> 0, height |-> 0]
            /\ UNCHANGED status
       ELSE /\ status' = "aborted"
            /\ UNCHANGED <<m_tiles, m_rect>>
  /\ UNCHANGED <<m_layerSize, m_blockSize, m_texture, m_tileSize, m_margin,
                 m_spacing, m_vertices, m_position, nanAsUnsigned>>

\* setTile that stores the tile and leaves the cell's flip as it was
setTileKeepingFlip(position, tile, flip) ==
  /\ status = "running"
  /\ last' = Called("setTile")
  /\ IF isValid(position)
       THEN /\ m_tiles' = [m_tiles EXCEPT ![position].tile = tile]
            /\ UNCHANGED status
       ELSE /\ status' = "aborted"
            /\ UNCHANGED m_tiles
  /\ UNCHANGED <<m_layerSize, m_blockSize, m_texture, m_tileSize, m_margin,
                 m_spacing, m_rect, m_vertices, m_position, nanAsUnsigned>>

\* setTile without the assertion, the position wrapped into the grid
setTileWrapping(position, tile, flip) ==
  /\ status = "running"
  /\ last' = Called("setTile")
  /\ m_tiles' = [m_tiles EXCEPT ![<<position[1] % m_layerSize[1],
                                    position[2] % m_layerSize[2]>>] =
                                  [tile |-> tile, flip |-> flip]]
  /\ UNCHANGED <<m_layerSize, m_blockSize, m_texture, m_tileSize, m_margin,
                 m_spacing, m_rect, m_vertices, m_position, nanAsUnsigned, status>>

\* lines 137-140
setTile(position, tile, flip) ==
  /\ status = "running"
  /\ last' = Called("setTile")
  /\ IF isValid(position)
       THEN /\ m_tiles' = [m_tiles EXCEPT ![position] = [tile |-> tile, flip |-> flip]]
            /\ UNCHANGED status
       ELSE /\ status' = "aborted"
            /\ UNCHANGED m_tiles
  /\ UNCHANGED <<m_layerSize, m_blockSize, m_texture, m_tileSize, m_margin,
                 m_spacing, m_rect, m_vertices, m_position, nanAsUnsigned>>

\* line 144
tileOf(position) == m_tiles[position].tile

\* line 150
flipOf(position) == m_tiles[position].flip

getTile(position) ==
  /\ status = "running"
  /\ IF isValid(position)
       THEN /\ last' = [NoCall EXCEPT !.op = "getTile", !.position = position,
                                      !.tile = tileOf(position)]
            /\ UNCHANGED status
       ELSE /\ last' = [NoCall EXCEPT !.op = "getTile", !.position = position]
            /\ status' = "aborted"
  /\ UNCHANGED <<layerVars, nanAsUnsigned>>

getFlip(position) ==
  /\ status = "running"
  /\ IF isValid(position)
       THEN /\ last' = [NoCall EXCEPT !.op = "getFlip", !.position = position,
                                      !.flip = flipOf(position)]
            /\ UNCHANGED status
       ELSE /\ last' = [NoCall EXCEPT !.op = "getFlip", !.position = position]
            /\ status' = "aborted"
  /\ UNCHANGED <<layerVars, nanAsUnsigned>>

\* clear that resets the tiles and leaves the flips
clearKeepingFlips ==
  /\ status = "running"
  /\ m_tiles' = [p \in DOMAIN m_tiles |-> [m_tiles[p] EXCEPT !.tile = NoTile]]
  /\ last' = Called("clear")
  /\ UNCHANGED <<m_layerSize, m_blockSize, m_texture, m_tileSize, m_margin,
                 m_spacing, m_rect, m_vertices, m_position, nanAsUnsigned, status>>

\* lines 153-158
clear ==
  /\ status = "running"
  /\ m_tiles' = [p \in DOMAIN m_tiles |-> [tile |-> NoTile, flip |-> None]]
  /\ last' = Called("clear")
  /\ UNCHANGED <<m_layerSize, m_blockSize, m_texture, m_tileSize, m_margin,
                 m_spacing, m_rect, m_vertices, m_position, nanAsUnsigned, status>>

-----------------------------------------------------------------------------
(* Geometry synthesis *)

Running(vertices) == [status |-> "running", vertices |-> vertices]

Vertex(position, texCoords) == [position |-> position, texCoords |-> texCoords]

\* Texture::computeTextureCoords: a pixel coordinate over the texture's size
Normalized(pixel, textureSize) ==
  << <<pixel[1], textureSize[1]>>, <<pixel[2], textureSize[2]>> >>

\* unsigned division and remainder; a zero divisor faults when the build traps
\* and otherwise yields 0 and the dividend
DivU(a, b) == IF b = 0 THEN 0 ELSE a \div b

ModU(a, b) == IF b = 0 THEN a ELSE a % b

\* line 228
tilesetSizeOf(textureSize) ==
  LET num == << U(U(textureSize[1] - U(2 * m_margin[1])) + m_spacing[1]),
                U(U(textureSize[2] - U(2 * m_margin[2])) + m_spacing[2]) >>
      den == << U(m_tileSize[1] + m_spacing[1]), U(m_tileSize[2] + m_spacing[2]) >>
  IN  [zeroDivisor |-> (den[1] = 0 \/ den[2] = 0),
       size |-> << DivU(num[1], den[1]), DivU(num[2], den[2]) >>]

\* lines 252-255
tileCoordsOf(tile, tilesetSize) ==
  << ModU(tile, tilesetSize[1]), DivU(tile, tilesetSize[1]) >>

textureRectOf(tileCoords) ==
  [left   |-> U(U(tileCoords[1] * m_tileSize[1]) + U(tileCoords[1] * m_spacing[1]) + m_margin[1]),
   top    |-> U(U(tileCoords[2] * m_tileSize[2]) + U(tileCoords[2] * m_spacing[2]) + m_margin[2]),
   width  |-> m_tileSize[1],
   height |-> m_tileSize[2]]

\* lines 267-289: the texture coordinates of the four corners, in the order
\* top-left, top-right, bottom-left, bottom-right, after the flips
SwapAt(t, i, j) == [t EXCEPT ![i] = t[j], ![j] = t[i]]

\* the flips applied vertical first and diagonal last
flipTexCoordsVerticalFirst(t, flip) ==
  LET v == IF "Vertically" \in flip THEN SwapAt(SwapAt(t, 1, 3), 2, 4) ELSE t
      h == IF "Horizontally" \in flip THEN SwapAt(SwapAt(v, 1, 2), 3, 4) ELSE v
      d == IF "Diagonally" \in flip THEN SwapAt(h, 2, 3) ELSE h
  IN  d

flipTexCoords(t, flip) ==
  LET d == IF "Diagonally" \in flip THEN SwapAt(t, 2, 3) ELSE t
      h == IF "Horizontally" \in flip THEN SwapAt(SwapAt(d, 1, 2), 3, 4) ELSE d
      v == IF "Vertically" \in flip THEN SwapAt(SwapAt(h, 1, 3), 2, 4) ELSE h
  IN  v

\* the quad emitted as a strip: the second triangle starts from the top-right
tileVerticesStrip(cell, flip, tileCoords, textureSize) ==
  LET blockSize == getBlockSize
      x0 == U(cell[1] * blockSize[1])
      y0 == U(cell[2] * blockSize[2])
      p == << <<x0, y0>>, <<x0 + blockSize[1], y0>>,
              <<x0, y0 + blockSize[2]>>, <<x0 + blockSize[1], y0 + blockSize[2]>> >>
      r == textureRectOf(tileCoords)
      raw == << Normalized(<<r.left, r.top>>, textureSize),
                Normalized(<<r.left + r.width, r.top>>, textureSize),
                Normalized(<<r.left, r.top + r.height>>, textureSize),
                Normalized(<<r.left + r.width, r.top + r.height>>, textureSize) >>
      t == flipTexCoords(raw, flip)
      v == [i \in 1..4 |-> Vertex(p[i], t[i])]
  IN  << v[1], v[2], v[3], v[2], v[3], v[4] >>

\* lines 246-301: the six vertices of one cell
tileVertices(cell, flip, tileCoords, textureSize) ==
  LET blockSize == getBlockSize
      x0 == U(cell[1] * blockSize[1])
      y0 == U(cell[2] * blockSize[2])
      p == << <<x0, y0>>, <<x0 + blockSize[1], y0>>,
              <<x0, y0 + blockSize[2]>>, <<x0 + blockSize[1], y0 + blockSize[2]>> >>
      r == textureRectOf(tileCoords)
      raw == << Normalized(<<r.left, r.top>>, textureSize),
                Normalized(<<r.left + r.width, r.top>>, textureSize),
                Normalized(<<r.left, r.top + r.height>>, textureSize),
                Normalized(<<r.left + r.width, r.top + r.height>>, textureSize) >>
      t == flipTexCoords(raw, flip)
      v == [i \in 1..4 |-> Vertex(p[i], t[i])]
  IN  << v[1], v[2], v[3], v[3], v[2], v[4] >>

\* the loops with x outside and y inside
RECURSIVE fillCellsColumnMajor(_, _, _, _, _, _)
fillCellsColumnMajor(k, array, rect, textureSize, tilesetSize, trap) ==
  LET width == Min(rect.width, m_layerSize[1] + 1)
      height == Min(rect.height, m_layerSize[2] + 1)
      cell == << U(rect.left + (k \div height)), U(rect.top + (k % height)) >>
  IN  IF height = 0 \/ k >= width * height THEN Running(array)
      ELSE IF ~isValid(cell) THEN [status |-> "aborted", vertices |-> array]
      ELSE LET tile == m_tiles[cell].tile IN
        IF tile = NoTile
          THEN fillCellsColumnMajor(k + 1, array, rect, textureSize, tilesetSize, trap)
        ELSE IF ~(tile >= 0) THEN [status |-> "aborted", vertices |-> array]
        ELSE IF tilesetSize[1] = 0 /\ trap THEN [status |-> "crashed", vertices |-> array]
        ELSE LET tileCoords == tileCoordsOf(tile, tilesetSize) IN
          IF ~(tileCoords[2] < tilesetSize[2])
            THEN [status |-> "aborted", vertices |-> array]
            ELSE fillCellsColumnMajor(k + 1,
                           array \o tileVertices(cell, m_tiles[cell].flip, tileCoords, textureSize),
                           rect, textureSize, tilesetSize, trap)

\* lines 233-303, from the k-th cell of the rectangle on (row-major).  The
\* rectangle is cut at one cell beyond the grid: the loop never passes the
\* first invalid cell.
RECURSIVE fillCells(_, _, _, _, _, _)
fillCells(k, array, rect, textureSize, tilesetSize, trap) ==
  LET width == Min(rect.width, m_layerSize[1] + 1)
      height == Min(rect.height, m_layerSize[2] + 1)
      cell == << U(rect.left + (k % width)), U(rect.top + (k \div width)) >>
  IN  IF width = 0 \/ k >= width * height THEN Running(array)
      ELSE IF ~isValid(cell) THEN [status |-> "aborted", vertices |-> array]
      ELSE LET tile == m_tiles[cell].tile IN
        IF tile = NoTile
          THEN fillCells(k + 1, array, rect, textureSize, tilesetSize, trap)
        ELSE IF ~(tile >= 0) THEN [status |-> "aborted", vertices |-> array]
        ELSE IF tilesetSize[1] = 0 /\ trap THEN [status |-> "crashed", vertices |-> array]
        ELSE LET tileCoords == tileCoordsOf(tile, tilesetSize) IN
          IF ~(tileCoords[2] < tilesetSize[2])
            THEN [status |-> "aborted", vertices |-> array]
            ELSE fillCells(k + 1,
                           array \o tileVertices(cell, m_tiles[cell].flip, tileCoords, textureSize),
                           rect, textureSize, tilesetSize, trap)

\* lines 225-305.  nullRead: what the reads through a null m_texture do
\* ("fault", or "garbage": they yield NullReadSize; "none" when it is bound);
\* trap: whether an integer division by zero faults
fillVertexArray(array, rect, nullRead, trap) ==
  IF ~m_texture.bound /\ nullRead = "fault"
    THEN [status |-> "crashed", vertices |-> array]
    ELSE LET textureSize == IF m_texture.bound THEN m_texture.size ELSE NullReadSize
             tileset == tilesetSizeOf(textureSize)
         IN  IF tileset.zeroDivisor /\ trap
               THEN [status |-> "crashed", vertices |-> array]
               ELSE fillCells(0, array, rect, textureSize, tileset.size, trap)

\* the outcomes of an integer division by zero, where the call can reach one
Traps(textureSize) ==
  IF tilesetSizeOf(textureSize).zeroDivisor \/ tilesetSizeOf(textureSize).size[1] = 0
    THEN BOOLEAN ELSE {FALSE}

\* a call of fillVertexArray on an empty array
fillVertexArrayCall(rect) ==
  /\ status = "running"
  /\ \E trap \in Traps(m_texture.size) :
       \E filled \in { fillVertexArray(<<>>, rect, "none", trap) } :
           /\ status' = filled.status
           /\ last' = [Called("fillVertexArray") EXCEPT
                         !.rect = rect,
                         !.geometry = filled.vertices]
  /\ UNCHANGED <<layerVars, nanAsUnsigned>>

\* updateGeometry without the clear of line 308
updateGeometryAppending(rect, nullRead, trap) ==
  IF ~m_texture.bound \/ m_tileSize[1] = 0 \/ m_tileSize[2] = 0
    THEN Running(m_vertices)
    ELSE fillVertexArray(m_vertices, rect, nullRead, trap)

\* lines 307-315, over the rectangle draw has just stored in m_rect
updateGeometry(rect, nullRead, trap) ==
  IF ~m_texture.bound \/ m_tileSize[1] = 0 \/ m_tileSize[2] = 0
    THEN Running(<<>>)
    ELSE fillVertexArray(<<>>, rect, nullRead, trap)

-----------------------------------------------------------------------------
(* Visibility *)

EmptyRect == [left |-> 0, top |-> 0, width |-> 0, height |-> 0]

\* the view's square without the ring of one block around it
localRectNotGrown(v) ==
  LET size == (Sqrt2[1] * Max(v.size[1], v.size[2])) \div Sqrt2[2]
  IN  [left   |-> v.center[1] - size \div 2 - m_position[1],
       top    |-> v.center[2] - size \div 2 - m_position[2],
       width  |-> size,
       height |-> size]

\* lines 188-194: the view's square, in the layer's space, grown by a block
localRect(v) ==
  LET blockSize == getBlockSize
      size == (Sqrt2[1] * Max(v.size[1], v.size[2])) \div Sqrt2[2]
      grow == Max(blockSize[1], blockSize[2]) * FScale
  IN  [left   |-> v.center[1] - size \div 2 - m_position[1] - grow,
       top    |-> v.center[2] - size \div 2 - m_position[2] - grow,
       width  |-> size + 2 * grow,
       height |-> size + 2 * grow]

\* line 196
layerRect ==
  [left |-> 0, top |-> 0,
   width  |-> U(m_layerSize[1] * getBlockSize[1]) * FScale,
   height |-> U(m_layerSize[2] * getBlockSize[2]) * FScale]

\* Rect::intersects
intersects(a, b) ==
  /\ a.left + a.width > b.left /\ a.left < b.left + b.width
  /\ a.top + a.height > b.top /\ a.top < b.top + b.height

intersection(a, b) ==
  LET left == Max(a.left, b.left)
      top == Max(a.top, b.top)
      right == Min(a.left + a.width, b.left + b.width)
      bottom == Min(a.top + a.height, b.top + b.height)
  IN  [left |-> left, top |-> top, width |-> right - left, height |-> bottom - top]

\* lines 202-203: x / block + 0.5f, truncated to unsigned; the quotient by a
\* zero block is NaN (x is 0 there), whose conversion is undefined: nan
toCell(x, block, nan) ==
  IF block = 0 THEN nan ELSE (2 * x + block * FScale) \div (2 * block * FScale)


\* the rectangle that starts from the cached one instead of RectU(0, 0, 0, 0)
visibleRectKeepingCache(v, nan) ==
  LET blockSize == getBlockSize
      local == localRect(v)
  IN  IF intersects(local, layerRect)
        THEN LET i == intersection(local, layerRect) IN
             [left   |-> toCell(i.left, blockSize[1], nan),
              top    |-> toCell(i.top, blockSize[2], nan),
              width  |-> toCell(i.width, blockSize[1], nan),
              height |-> toCell(i.height, blockSize[2], nan)]
        ELSE m_rect

\* lines 196-204
visibleRect(v, nan) ==
  LET blockSize == getBlockSize
      local == localRect(v)
  IN  IF intersects(local, layerRect)
        THEN LET i == intersection(local, layerRect) IN
             [left   |-> toCell(i.left, blockSize[1], nan),
              top    |-> toCell(i.top, blockSize[2], nan),
              width  |-> toCell(i.width, blockSize[1], nan),
              height |-> toCell(i.height, blockSize[2], nan)]
        ELSE EmptyRect

-----------------------------------------------------------------------------
(* Draw dispatch *)

textureUnsetIgnored == FALSE

\* line 179
textureUnset == ~m_texture.bound

rebuildAlways(rect) == TRUE

\* line 208
rebuildNeeded(rect) == rect # m_rect

\* lines 178-222
draw(v) ==
  /\ status = "running"
  /\ IF textureUnset
       THEN /\ last' = [Called("draw") EXCEPT !.view = v]
            /\ UNCHANGED <<m_rect, m_vertices, status>>
       ELSE \E trap \in Traps(m_texture.size), rect \in { visibleRect(v, nanAsUnsigned) } :
            \E rebuilt \in { rebuildNeeded(rect) } :
            \E built \in { IF rebuilt THEN updateGeometry(rect, "none", trap)
                                       ELSE Running(m_vertices) } :
                  /\ m_rect' = rect
                  /\ m_vertices' = built.vertices
                  /\ status' = built.status
                  /\ last' = [Called("draw") EXCEPT
                                !.view = v,
                                !.rebuilt = rebuilt,
                                !.draws = IF built.status = "running" THEN 1 ELSE 0,
                                !.geometry = IF built.status = "running"
                                               THEN built.vertices ELSE <<>>]
  /\ UNCHANGED <<m_layerSize, m_blockSize, m_texture, m_tileSize, m_margin,
                 m_spacing, m_tiles, m_position, nanAsUnsigned>>

commitRectFromCache == m_rect

\* line 170
commitRect ==
  [left |-> 0, top |-> 0, width |-> m_layerSize[1], height |-> m_layerSize[2]]

\* lines 168-176
commitGeometry ==
  /\ status = "running"
  /\ \E nullRead \in (IF m_texture.bound THEN {"none"} ELSE {"fault", "garbage"}),
        trap \in Traps(IF m_texture.bound THEN m_texture.size ELSE NullReadSize) :
       \E filled \in { fillVertexArray(<<>>, commitRect, nullRead, trap) } :
           /\ status' = filled.status
           /\ last' = [Called("commitGeometry") EXCEPT
                         !.loads = IF filled.status = "running" THEN 1 ELSE 0,
                         !.geometry = IF filled.status = "running"
                                        THEN filled.vertices ELSE <<>>]
  /\ UNCHANGED <<layerVars, nanAsUnsigned>>

Next ==
  \/ \E texture \in TextureInputs : setTexture(texture)
  \/ unsetTexture
  \/ \E tileSize \in TileSizeInputs : setTileSize(tileSize)
  \/ \E margin \in MarginInputs : setMargin(margin)
  \/ \E spacing \in SpacingInputs : setSpacing(spacing)
  \/ \E blockSize \in BlockSizeInputs : setBlockSize(blockSize)
  \/ \E position \in PositionInputs, tile \in TileInputs, flip \in FlipInputs :
       setTile(position, tile, flip)
  \/ clear
  \/ \E v \in ViewInputs : draw(v)
  \/ commitGeometry

\* the layer's life: configuration, tile edits, draw and commitGeometry
Spec == Init /\ [][Next]_vars

\* the tile grid alone, with more tiles and flips, and its reads
NextGrid ==
  \/ \E position \in PositionInputs, tile \in GridTileInputs, flip \in GridFlipInputs :
       setTile(position, tile, flip)
  \/ \E position \in PositionInputs : getTile(position)
  \/ \E position \in PositionInputs : getFlip(position)
  \/ clear

SpecGrid == Init /\ [][NextGrid]_vars

\* sizes handed to setTileSize and setBlockSize in SpecConfig
ConfigSizeInputs == (0..LayerWidth) \X (0..LayerWidth)

\* the tile size, the block size and getBlockSize
NextConfig ==
  \/ \E tileSize \in ConfigSizeInputs : setTileSize(tileSize)
  \/ \E blockSize \in ConfigSizeInputs : setBlockSize(blockSize)
  \/ getBlockSizeCall

SpecConfig == Init /\ [][NextConfig]_vars

\* synthesis alone: a layer of two rows with a texture and a tile size set
\* and any grid of SynthCells, and fillVertexArray over the rectangles inside
\* the grid
SynthLayerSize == <<LayerWidth, 2>>

SynthCells == { EmptyCell,
                [tile |-> 1, flip |-> {"Horizontally"}],
                [tile |-> -2, flip |-> None] }

SynthBlockSizes == { <<0, 0>>, <<2, 3>> }

\* the empty rectangle and every non-empty one inside the grid
SynthRects ==
  { r \in [left : 0..(m_layerSize[1] - 1), top : 0..(m_layerSize[2] - 1),
           width : 1..m_layerSize[1], height : 1..m_layerSize[2]] :
      r.left + r.width <= m_layerSize[1] /\ r.top + r.height <= m_layerSize[2] }
    \cup { EmptyRect }

InitSynth ==
  /\ m_layerSize = SynthLayerSize
  /\ m_blockSize \in SynthBlockSizes
  /\ m_texture \in TextureInputs
  /\ m_tileSize = <<1, 1>>
  /\ m_margin = <<0, 0>>
  /\ m_spacing = <<0, 0>>
  /\ m_tiles \in [(0..(SynthLayerSize[1] - 1)) \X (0..(SynthLayerSize[2] - 1)) -> SynthCells]
  /\ m_rect = EmptyRect
  /\ m_vertices = <<>>
  /\ m_position = <<0, 0>>
  /\ nanAsUnsigned \in NaNToUnsigned
  /\ status = "running"
  /\ last = Called("configure")

NextSynth == \E rect \in SynthRects : fillVertexArrayCall(rect)

SpecSynth == InitSynth /\ [][NextSynth]_vars

\* the flips: a one-row layer whose cells hold tile 0 under any combination of
\* flips, over a texture of one tile or of three
Flip == { "Horizontally", "Vertically", "Diagonally" }

FlipCells == { EmptyCell } \cup { [tile |-> 0, flip |-> f] : f \in SUBSET Flip }

FlipTextures == { [bound |-> TRUE, size |-> <<1, 1>>], [bound |-> TRUE, size |-> <<3, 1>>] }

\* each cell alone and the whole row
FlipRects ==
  { [left |-> x, top |-> 0, width |-> 1, height |-> 1] : x \in 0..(m_layerSize[1] - 1) }
    \cup { [left |-> 0, top |-> 0, width |-> m_layerSize[1], height |-> m_layerSize[2]] }

InitFlip ==
  /\ m_layerSize = LayerSize
  /\ m_blockSize = <<0, 0>>
  /\ m_texture \in FlipTextures
  /\ m_tileSize = <<1, 1>>
  /\ m_margin = <<0, 0>>
  /\ m_spacing = <<0, 0>>
  /\ m_tiles \in [(0..(LayerSize[1] - 1)) \X (0..(LayerSize[2] - 1)) -> FlipCells]
  /\ m_rect = EmptyRect
  /\ m_vertices = <<>>
  /\ m_position = <<0, 0>>
  /\ nanAsUnsigned \in NaNToUnsigned
  /\ status = "running"
  /\ last = Called("configure")

NextFlip == \E rect \in FlipRects : fillVertexArrayCall(rect)

SpecFlip == InitFlip /\ [][NextFlip]_vars

\* the atlas: one tile in cell (0,0), over textures, tile sizes, margins and
\* spacings that make atlases of 4 x 2 tiles and smaller ones, and margins
\* larger than half the texture
AtlasTextures == { [bound |-> TRUE, size |-> <<4, 2>>], [bound |-> TRUE, size |-> <<3, 1>>] }

AtlasTileSizes == { <<1, 1>>, <<2, 1>> }

AtlasMargins == { <<0, 0>>, <<1, 0>>, <<2, 0>> }

AtlasSpacings == { <<0, 0>>, <<1, 0>> }

AtlasTiles == { 0, 1, 3, 5, 8 }

FirstCell == [left |-> 0, top |-> 0, width |-> 1, height |-> 1]

InitAtlas ==
  /\ m_layerSize = LayerSize
  /\ m_blockSize = <<0, 0>>
  /\ m_texture \in AtlasTextures
  /\ m_tileSize \in AtlasTileSizes
  /\ m_margin \in AtlasMargins
  /\ m_spacing \in AtlasSpacings
  /\ \E tile \in AtlasTiles :
       m_tiles = [p \in (0..(LayerSize[1] - 1)) \X (0..(LayerSize[2] - 1)) |->
                    IF p = <<0, 0>> THEN [tile |-> tile, flip |-> None] ELSE EmptyCell]
  /\ m_rect = EmptyRect
  /\ m_vertices = <<>>
  /\ m_position = <<0, 0>>
  /\ nanAsUnsigned \in NaNToUnsigned
  /\ status = "running"
  /\ last = Called("configure")

NextAtlas == fillVertexArrayCall(FirstCell)

SpecAtlas == InitAtlas /\ [][NextAtlas]_vars

\* visibility: a layer of two rows, placed at one of ViewPositions, with the
\* block size set or left to the tile size, drawn under views whose centers
\* lie on a half-cell lattice across and around the layer
ViewPositions == { <<0, 0>>, <<FScale \div 2, 0>>, <<-(FScale \div 4), FScale>> }

ViewBlockSizes == { <<0, 0>>, <<2, 1>> }

ViewGrids ==
  { [p \in (0..(SynthLayerSize[1] - 1)) \X (0..(SynthLayerSize[2] - 1)) |-> cell] :
      cell \in { EmptyCell, [tile |-> 0, flip |-> None] } }

ViewCenters ==
  { (FScale \div 2) * k : k \in (-3)..(2 * LayerWidth + 3) }
    \X { -2 * FScale, FScale \div 2, 3 * FScale }

ViewSizes == { <<0, 0>>, <<FScale, FScale \div 2>> }

\* a view one cell wide whose grown square starts half a cell into the layer
ViewTie == [center |-> <<FScale + FScale \div 2 + Sqrt2[1] \div 2, FScale \div 2>>,
            size |-> <<FScale, FScale \div 2>>]

LatticeViews ==
  { [center |-> c, size |-> sz] : c \in ViewCenters, sz \in ViewSizes } \cup { ViewTie }

InitView ==
  /\ m_layerSize = SynthLayerSize
  /\ m_blockSize \in ViewBlockSizes
  /\ m_texture \in TextureInputs
  /\ m_tileSize = <<1, 1>>
  /\ m_margin = <<0, 0>>
  /\ m_spacing = <<0, 0>>
  /\ m_tiles \in ViewGrids
  /\ m_rect = EmptyRect
  /\ m_vertices = <<>>
  /\ m_position \in ViewPositions
  /\ nanAsUnsigned \in NaNToUnsigned
  /\ status = "running"
  /\ last = Called("configure")

NextView == \E v \in LatticeViews : draw(v)

SpecView == InitView /\ [][NextView]_vars

-----------------------------------------------------------------------------
(* Properties *)

tileSizeIsZero == m_tileSize[1] = 0 \/ m_tileSize[2] = 0

\* what the synthesizer yields over rect from the grid and the configuration
\* as they are now: nothing for a degenerate configuration
Synthesized(rect) ==
  IF ~m_texture.bound \/ tileSizeIsZero
    THEN <<>>
    ELSE fillVertexArray(<<>>, rect, "none", FALSE).vertices

NonSentinel == { p \in ValidPositions : m_tiles[p].tile # NoTile }

Submitted == last.op = "draw" /\ last.draws = 1

WholeRect == [left |-> 0, top |-> 0, width |-> LayerSize[1], height |-> LayerSize[2]]

RightRect == [left |-> LayerSize[1] - 1, top |-> 0, width |-> 1, height |-> 1]

\* C1, as claimed: whenever draw submits geometry, the submitted vertices are
\* the synthesis over the cached rectangle from the current grid and the
\* current configuration.
C1_SubmittedIsCurrentSynthesis ==
  Submitted => last.geometry = Synthesized(m_rect)

\* C1, amended: whenever draw submits geometry, it submits the cached
\* geometry; that is the synthesis over the cached rectangle from the current
\* grid and configuration when this draw rebuilt it.
C1_SubmittedIsCacheFreshWhenRebuilt ==
  Submitted =>
    /\ last.geometry = m_vertices
    /\ last.rebuilt => m_vertices = Synthesized(m_rect)

C1_RebuiltAndSubmittedTiles ==
  /\ Submitted
  /\ last.rebuilt
  /\ m_rect = WholeRect
  /\ Len(last.geometry) = 6 * LayerSize[1]

\* C2: setTile, clear and the configuration setters leave the cached rectangle
\* and the cached geometry as they were, and a draw that computes the cached
\* rectangle submits that geometry, whatever was edited since it was built.
C2_EditsLeaveTheCache ==
  [][ /\ last'.op \in {"setTile", "clear", "configure"}
         => m_rect' = m_rect /\ m_vertices' = m_vertices
      /\ (last'.op = "draw" /\ last'.draws = 1 /\ ~last'.rebuilt)
         => last'.geometry = m_vertices ]_vars

\* a tile set inside the cached rectangle, and a draw that still submits the
\* geometry built without it
C2_EditedTileNotSubmitted ==
  /\ Submitted
  /\ m_rect = WholeRect
  /\ m_tileSize = <<1, 1>>
  /\ m_tiles[<<0, 0>>].tile = 0
  /\ last.geometry = <<>>

\* C3: a draw with a texture bound whose visible rectangle equals the cached
\* one leaves the cached geometry as it was and submits it once; a draw that
\* follows a draw with the same view submits the same vertices.
C3_SameRectangleNoRebuild ==
  [][ /\ (last'.op = "draw" /\ m_texture.bound
            /\ visibleRect(last'.view, nanAsUnsigned) = m_rect)
         => /\ m_vertices' = m_vertices
            /\ m_rect' = m_rect
            /\ ~last'.rebuilt
            /\ last'.draws = 1
            /\ last'.geometry = m_vertices
      /\ (Submitted /\ last'.op = "draw" /\ last'.view = last.view)
         => /\ last'.draws = 1
            /\ last'.geometry = last.geometry ]_vars

C3_ResubmittedCachedTiles ==
  /\ Submitted
  /\ ~last.rebuilt
  /\ last.geometry # <<>>
  /\ last.geometry # Synthesized(m_rect)

\* C4: a draw with a texture bound and a tile size of zero width or height
\* submits zero vertices and does not fail.
C4_ZeroTileSizeSubmitsNothing ==
  (last.op = "draw" /\ m_texture.bound /\ tileSizeIsZero)
    => /\ status = "running"
       /\ last.draws = 1
       /\ last.geometry = <<>>

\* C5: a draw with no texture bound submits nothing and changes nothing of the
\* layer.
C5_DrawWithoutTextureIsNoOp ==
  [][ (last'.op = "draw" /\ ~m_texture.bound)
        => /\ last'.draws = 0
           /\ status' = status
           /\ UNCHANGED layerVars ]_vars

C5_DrawnWithoutTexture ==
  /\ last.op = "draw"
  /\ ~m_texture.bound
  /\ last.view = ViewWhole
  /\ m_rect = RightRect
  /\ m_vertices # <<>>

\* C6: after setTile(p, t, f) at a valid p, getTile(p) is t and getFlip(p) is
\* f, and every other cell reads as before.
C6_SetTileThenRead ==
  [][ \A p \in PositionInputs, t \in GridTileInputs, f \in GridFlipInputs :
        (isValid(p) /\ setTile(p, t, f))
          => /\ tileOf(p)' = t
             /\ flipOf(p)' = f
             /\ \A q \in ValidPositions \ {p} :
                  tileOf(q)' = tileOf(q) /\ flipOf(q)' = flipOf(q) ]_vars

C6_TwoCellsSet ==
  /\ last.op = "setTile"
  /\ status = "running"
  /\ m_tiles[<<0, 0>>] = [tile |-> 1, flip |-> {"Vertically", "Diagonally"}]
  /\ m_tiles[<<1, 0>>] = [tile |-> -2, flip |-> {"Horizontally"}]

\* C7: after construction and after clear(), every valid position reads NoTile
\* and an empty flip set, and the grid has the dimensions it was built with.
C7_ClearedGrid ==
  /\ last.op \in {"TileLayer", "clear"}
       => \A p \in ValidPositions : tileOf(p) = NoTile /\ flipOf(p) = None
  /\ m_layerSize = LayerSize
  /\ DOMAIN m_tiles = (0..(LayerSize[1] - 1)) \X (0..(LayerSize[2] - 1))

C7_Cleared ==
  /\ last.op = "clear"
  /\ \A p \in ValidPositions : m_tiles[p] = EmptyCell

\* C8: with a texture bound and a non-zero tile size, the vertices
\* commitGeometry loads are the synthesis over the whole grid, six for every
\* non-sentinel cell, whatever rectangle and geometry are cached, and it
\* leaves both as they were.
C8_CommitIsWholeGrid ==
  [][ (last'.op = "commitGeometry" /\ m_texture.bound /\ ~tileSizeIsZero)
        => /\ m_rect' = m_rect
           /\ m_vertices' = m_vertices
           /\ last'.loads = 1
                => /\ last'.geometry = Synthesized(WholeRect)
                   /\ Len(last'.geometry) = 6 * Cardinality(NonSentinel) ]_vars

C8_CommittedBesideSmallerCache ==
  /\ last.op = "commitGeometry"
  /\ last.loads = 1
  /\ m_rect = RightRect
  /\ Len(m_vertices) = 6
  /\ Len(last.geometry) = 6 * LayerSize[1]

\* C9: with the texture unset, draw and commitGeometry both complete and
\* produce no geometry.
C9_UnsetTextureTolerated ==
  (last.op \in {"draw", "commitGeometry"} /\ ~m_texture.bound)
    => /\ status = "running"
       /\ last.draws = 0
       /\ last.geometry = <<>>

\* C10: setTile, getTile and getFlip at a position with x >= width or
\* y >= height abort; no cell is modified and no cell's value is returned.
C10_OutOfRangeAborts ==
  [][ \A p \in PositionInputs :
        (~isValid(p) /\ ( (\E t \in GridTileInputs, f \in GridFlipInputs : setTile(p, t, f))
                          \/ getTile(p)
                          \/ getFlip(p) ))
          => /\ status' = "aborted"
             /\ m_tiles' = m_tiles
             /\ last'.tile = NoCall.tile
             /\ last'.flip = NoCall.flip ]_vars

C10_AbortedOutOfRange ==
  /\ status = "aborted"
  /\ last.op = "setTile"
  /\ m_tiles[<<0, 0>>].tile = 1

\* C11: getBlockSize() returns the tile size when the block size is (0,0) and
\* the block size otherwise, from the tile size and block size as they are at
\* the call.
C11_BlockSizeOrTileSize ==
  last.op = "getBlockSize"
    => last.size = (IF m_blockSize = <<0, 0>> THEN m_tileSize ELSE m_blockSize)

\* the fallback read after the tile size was changed
C11_FallbackAfterChange ==
  /\ last.op = "getBlockSize"
  /\ m_blockSize = <<0, 0>>
  /\ m_tileSize = <<2, 1>>
  /\ last.size = <<2, 1>>

\* C12: getBlockSize() returns the block size only if both of its components
\* are nonzero, and the tile size if either is zero.
C12_FallbackWhenEitherZero ==
  last.op = "getBlockSize"
    => last.size = (IF m_blockSize[1] # 0 /\ m_blockSize[2] # 0
                      THEN m_blockSize ELSE m_tileSize)

\* the cells of rect in row-major order (y outside, x inside)
RowMajor(rect) ==
  [k \in 1..(rect.width * rect.height) |->
     << rect.left + ((k - 1) % rect.width), rect.top + ((k - 1) \div rect.width) >>]

IsNonSentinel(cell) == m_tiles[cell].tile # NoTile

NonSentinelRowMajor(rect) == SelectSeq(RowMajor(rect), IsNonSentinel)

Filled == last.op = "fillVertexArray" /\ status = "running"

\* C13: fillVertexArray over a rectangle appends six vertices for each cell
\* whose tile is not NoTile, in row-major order of the cells, and none for a
\* NoTile cell: none at all when every cell is NoTile, and never more than
\* width x height x 6.
C13_SixPerNonSentinelRowMajor ==
  Filled =>
    LET cells == NonSentinelRowMajor(last.rect)
        blockSize == getBlockSize
    IN  /\ Len(last.geometry) = 6 * Len(cells)
        /\ Len(last.geometry) <= last.rect.width * last.rect.height * 6
        /\ \A i \in 1..Len(cells) :
             last.geometry[6 * (i - 1) + 1].position =
               <<cells[i][1] * blockSize[1], cells[i][2] * blockSize[2]>>
        /\ (\A i \in 1..Len(RowMajor(last.rect)) : ~IsNonSentinel(RowMajor(last.rect)[i]))
             => last.geometry = <<>>

\* two rows and two columns, with a sentinel cell and three others
C13_SkippedSentinelInTwoRows ==
  /\ Filled
  /\ last.rect = [left |-> 0, top |-> 0, width |-> 2, height |-> 2]
  /\ m_tiles[<<0, 0>>].tile = NoTile
  /\ Len(last.geometry) = 18

\* C19: the six vertices of a non-sentinel cell c are the top-left, top-right,
\* bottom-left, bottom-left, top-right and bottom-right corners of the rectangle
\* at c x blockSize of size blockSize; the two triangles have exactly the
\* top-right and bottom-left corners in common.
C19_TwoTrianglesOverPlacement ==
  Filled =>
    LET cells == NonSentinelRowMajor(last.rect)
        blockSize == getBlockSize
    IN  \A i \in 1..Len(cells) :
          LET x == cells[i][1] * blockSize[1]
              y == cells[i][2] * blockSize[2]
              tl == <<x, y>>
              tr == <<x + blockSize[1], y>>
              bl == <<x, y + blockSize[2]>>
              br == <<x + blockSize[1], y + blockSize[2]>>
              at(j) == last.geometry[6 * (i - 1) + j].position
          IN  /\ <<at(1), at(2), at(3), at(4), at(5), at(6)>> = <<tl, tr, bl, bl, tr, br>>
              /\ {at(1), at(2), at(3)} \cap {at(4), at(5), at(6)} = {tr, bl}
              /\ Cardinality({at(1), at(2), at(3), at(4), at(5), at(6)}) = 4

\* the cell (1,1) of a layer with block size (2,3)
C19_PlacedSecondRow ==
  /\ Filled
  /\ m_blockSize = <<2, 3>>
  /\ last.rect = [left |-> 1, top |-> 1, width |-> 1, height |-> 1]
  /\ Len(last.geometry) = 6
  /\ last.geometry[1].position = <<2, 3>>
  /\ last.geometry[6].position = <<4, 6>>

\* the corners (TL, TR, BL, BR) after each flip of the claim
DiagonalFlip(t) == <<t[1], t[3], t[2], t[4]>>

HorizontalFlip(t) == <<t[2], t[1], t[4], t[3]>>

VerticalFlip(t) == <<t[3], t[4], t[1], t[2]>>

ClaimedFlip(raw, flip) ==
  LET a == IF "Diagonally" \in flip THEN DiagonalFlip(raw) ELSE raw
      b == IF "Horizontally" \in flip THEN HorizontalFlip(a) ELSE a
  IN  IF "Vertically" \in flip THEN VerticalFlip(b) ELSE b

\* the raw corners of tile 0 with no margin: the tile-size square at the
\* texture's origin, over the texture's size
RawCorners ==
  << Normalized(<<0, 0>>, m_texture.size), Normalized(<<m_tileSize[1], 0>>, m_texture.size),
     Normalized(<<0, m_tileSize[2]>>, m_texture.size),
     Normalized(<<m_tileSize[1], m_tileSize[2]>>, m_texture.size) >>

UnitCorner(x, y) == << <<x, 1>>, <<y, 1>> >>

\* C14: the texture coordinates of a tile's quad are the raw corners with the
\* diagonal, then the horizontal, then the vertical flip applied, each if its
\* flag is set; the positions do not depend on the flips; for the unit square a
\* diagonal flip alone yields TL=(0,0) TR=(0,1) BL=(1,0) BR=(1,1).
C14_FlipsInOrder ==
  Filled =>
    LET cells == NonSentinelRowMajor(last.rect)
        blockSize == getBlockSize
    IN  \A i \in 1..Len(cells) :
          LET flip == m_tiles[cells[i]].flip
              v(j) == last.geometry[6 * (i - 1) + j]
              x == cells[i][1] * blockSize[1]
              y == cells[i][2] * blockSize[2]
          IN  /\ <<v(1).texCoords, v(2).texCoords, v(3).texCoords, v(6).texCoords>>
                   = ClaimedFlip(RawCorners, flip)
              /\ <<v(1).position, v(2).position, v(3).position, v(6).position>>
                   = << <<x, y>>, <<x + blockSize[1], y>>, <<x, y + blockSize[2]>>,
                        <<x + blockSize[1], y + blockSize[2]>> >>
              /\ (flip = {"Diagonally"} /\ m_texture.size = <<1, 1>>)
                   => <<v(1).texCoords, v(2).texCoords, v(3).texCoords, v(6).texCoords>>
                        = <<UnitCorner(0, 0), UnitCorner(0, 1), UnitCorner(1, 0), UnitCorner(1, 1)>>

\* a diagonal flip alone beside all three flips, over the unit texture
C14_DiagonalBesideAllThree ==
  /\ Filled
  /\ m_texture.size = <<1, 1>>
  /\ m_tiles[<<0, 0>>].flip = {"Diagonally"}
  /\ m_tiles[<<1, 0>>].flip = Flip
  /\ Len(last.geometry) = 12
  /\ last.geometry[2].texCoords = UnitCorner(0, 1)

\* the atlas size of the claim, in the program's unsigned arithmetic
AtlasSize ==
  << U(U(m_texture.size[1] - U(2 * m_margin[1])) + m_spacing[1]) \div (m_tileSize[1] + m_spacing[1]),
     U(U(m_texture.size[2] - U(2 * m_margin[2])) + m_spacing[2]) \div (m_tileSize[2] + m_spacing[2]) >>

AtlasCell(t) == << t % AtlasSize[1], t \div AtlasSize[1] >>

\* the pixel rectangle of the claim for tile t
AtlasRect(t) ==
  [left   |-> AtlasCell(t)[1] * m_tileSize[1] + AtlasCell(t)[1] * m_spacing[1] + m_margin[1],
   top    |-> AtlasCell(t)[2] * m_tileSize[2] + AtlasCell(t)[2] * m_spacing[2] + m_margin[2],
   width  |-> m_tileSize[1],
   height |-> m_tileSize[2]]

\* the tile of cell (0,0) went through the mapping
Mapped == Filled /\ last.geometry # <<>> /\ AtlasSize[1] > 0

\* the emitted top-left and bottom-right texture coordinates are those of the
\* claim's pixel rectangle, and the claim's two examples
AtlasMappingAsClaimed ==
  Mapped =>
    LET t == m_tiles[<<0, 0>>].tile
        r == AtlasRect(t)
    IN  /\ last.geometry[1].texCoords = Normalized(<<r.left, r.top>>, m_texture.size)
        /\ last.geometry[6].texCoords =
             Normalized(<<r.left + r.width, r.top + r.height>>, m_texture.size)
        /\ (AtlasSize[1] = 4 /\ t = 5) => AtlasCell(t) = <<1, 1>>
        /\ (AtlasSize[1] = 4 /\ t = 3) => AtlasCell(t) = <<3, 0>>

InsideTexture ==
  Mapped =>
    LET t == m_tiles[<<0, 0>>].tile
        r == AtlasRect(t)
    IN  AtlasCell(t)[2] < AtlasSize[2]
          => /\ r.left + r.width <= m_texture.size[1]
             /\ r.top + r.height <= m_texture.size[2]

\* C20: tile t >= 0 maps to atlas cell (t mod atlasWidth, t div atlasWidth) and
\* to the pixel rectangle at atlasCell x tileSize + atlasCell x spacing + margin
\* of size tileSize; atlasWidth 4 gives 5 -> (1,1) and 3 -> (3,0); whenever
\* t div atlasWidth < atlasHeight the pixel rectangle lies inside the texture.
C20_AtlasMapping == AtlasMappingAsClaimed /\ InsideTexture

\* C17: with a texture bound and a non-zero tile size, every draw and every
\* commitGeometry completes, whatever tiles setTile stored at valid positions.
C17_SynthesisIsTotal ==
  (last.op \in {"draw", "commitGeometry"} /\ m_texture.bound /\ ~tileSizeIsZero)
    => status = "running"

\* C15: a draw (texture bound) whose view, in the layer's space and grown, does
\* not intersect the layer's bounds computes the empty rectangle; after it the
\* cached rectangle is (0,0,0,0) and the cached geometry has no vertices.
C15_NoIntersectionEmptiesTheCache ==
  [][ (last'.op = "draw" /\ m_texture.bound
         /\ ~intersects(localRect(last'.view), layerRect))
        => /\ visibleRect(last'.view, nanAsUnsigned) = EmptyRect
           /\ m_rect' = EmptyRect
           /\ m_vertices' = <<>>
           /\ status' = "running" ]_vars

\* a draw away from the layer that replaced a non-empty cache
C15_DrawnAwayFromTiles ==
  /\ last.op = "draw"
  /\ last.view = ViewAway
  /\ last.rebuilt
  /\ m_texture.bound
  /\ ~tileSizeIsZero
  /\ NonSentinel = ValidPositions
  /\ m_rect = EmptyRect
  /\ m_vertices = <<>>

Drawn == last.op = "draw" /\ m_texture.bound

\* C16: for a non-zero block size, the rectangle draw computes ends inside the
\* grid on both axes, and the rebuild never fails the assertion on its cells.
C16_VisibleRectInsideGrid ==
  (Drawn /\ getBlockSize[1] # 0 /\ getBlockSize[2] # 0)
    => /\ m_rect.left + m_rect.width <= m_layerSize[1]
       /\ m_rect.top + m_rect.height <= m_layerSize[2]
       /\ status # "aborted"

\* the view itself (not inflated, not grown) in the layer's space
ViewInLayer(v) ==
  [left   |-> v.center[1] - v.size[1] \div 2 - m_position[1],
   top    |-> v.center[2] - v.size[2] \div 2 - m_position[2],
   width  |-> v.size[1],
   height |-> v.size[2]]

\* the placement rectangle of a cell: cell x blockSize, blockSize
Placement(cell) ==
  [left   |-> cell[1] * getBlockSize[1] * FScale,
   top    |-> cell[2] * getBlockSize[2] * FScale,
   width  |-> getBlockSize[1] * FScale,
   height |-> getBlockSize[2] * FScale]

Overlaps(a, b) ==
  /\ a.left < b.left + b.width /\ b.left < a.left + a.width
  /\ a.top < b.top + b.height /\ b.top < a.top + a.height

InRect(cell, rect) ==
  /\ rect.left <= cell[1] /\ cell[1] < rect.left + rect.width
  /\ rect.top <= cell[2] /\ cell[2] < rect.top + rect.height

\* C18: every cell whose placement rectangle overlaps the view, in the layer's
\* space, lies in the rectangle draw computes (unrotated view, translated
\* layer).
C18_NoVisibleCellCulled ==
  Drawn =>
    \A cell \in ValidPositions :
      Overlaps(Placement(cell), ViewInLayer(last.view)) => InRect(cell, m_rect)

\* a view over the middle of the layer that leaves cells out on both sides
C18_ViewedPartOfTheLayer ==
  /\ Drawn
  /\ status = "running"
  /\ m_position # <<0, 0>>
  /\ \E cell \in ValidPositions : Overlaps(Placement(cell), ViewInLayer(last.view))
  /\ \E cell \in ValidPositions : ~InRect(cell, m_rect)
  /\ m_rect.left > 0

====
